---- MODULE Spec2Model ----
(***************************************************************************)
(* Model of storage_monitor.py: the StorageMonitor class (state file,      *)
(* metric sampling, classification, alert evaluation, webhook delivery)    *)
(* and the scheduler loop of main().                                       *)
(***************************************************************************)
EXTENDS Naturals, Sequences, FiniteSets, TLC

VARIABLES
    pc,                  \* position of the process in main() / check_and_alert()
    config,              \* the config.py the process is started with
    webhook_url,         \* self.webhook_url
    send_status_reports, \* self.send_status_reports
    state_file,          \* content of the state file on disk
    last_states,         \* self.last_states
    value,               \* layer_size, home_size, journal_size, sys_usage of this cycle
    unavailable,         \* metrics whose source failed in the sampling of this cycle (kept until dispatch)
    prior,               \* self.last_states as it was when the alert loop of this cycle started
    alerts_to_send,      \* alerts_to_send of this cycle
    sent,                \* calls of send_discord_alert made in this cycle
    save_failed,         \* the last call of save_state printed "Failed to save state"
    sleep_time,          \* argument of the time.sleep the process is in (0: not sleeping)
    recorded,            \* history: the levels the preceding cycle of this run classified
    watched,             \* history: the metric whose announcements are followed ("none": no
                         \* history is kept)
    unannounced,         \* history: the level of the watched metric's block in the alert message
                         \* of the preceding cycle, if the delivery of that message failed
    call,                \* a call of determine_alert_level on its own: its arguments and
                         \* its return value ("none" before the call returned)
    trail                \* history of one metric ("none": not kept): the level of its last
                         \* block in this run, the level it has had since its last
                         \* delivered block, and whether this run loaded a value for it

vars == <<pc, config, webhook_url, send_status_reports, state_file, last_states,
          value, unavailable, prior, alerts_to_send, sent, save_failed, sleep_time,
          recorded, watched, unannounced, call, trail>>

-----------------------------------------------------------------------------
(* Metrics, thresholds and levels *)

metrics == <<"layer_dir", "home_dir", "journal_logs", "system_storage">>

MetricKeys == {metrics[i] : i \in DOMAIN metrics}

metric_name == [m \in MetricKeys |->
    CASE m = "layer_dir"      -> "~/.layer Directory"
      [] m = "home_dir"       -> "Home Directory (excl .layer)"
      [] m = "journal_logs"   -> "Journal Logs"
      [] m = "system_storage" -> "System Storage"]

unit == [m \in MetricKeys |-> IF m = "system_storage" THEN "%" ELSE "GB"]

thresholds == [m \in MetricKeys |->
    CASE m = "layer_dir"      -> [warning |-> 10, critical |-> 20]
      [] m = "home_dir"       -> [warning |-> 50, critical |-> 100]
      [] m = "journal_logs"   -> [warning |-> 5,  critical |-> 10]
      [] m = "system_storage" -> [warning |-> 80, critical |-> 95]]

Levels == {"normal", "warning", "critical"}

\* The comparisons made strict: a value equal to a threshold does not breach it.
determine_alert_level_exclusive(v, th) ==
    IF v > th.critical THEN "critical"
    ELSE IF v > th.warning THEN "warning"
    ELSE "normal"

determine_alert_level(v, th) ==
    IF v >= th.critical THEN "critical"
    ELSE IF v >= th.warning THEN "warning"
    ELSE "normal"

\* The values a metric source is sampled at: below the thresholds, at the
\* warning threshold and at the critical threshold.
Readings(m) == {0, thresholds[m].warning, thresholds[m].critical}

\* At most this many metrics are sampled at or above a threshold in one cycle.
MaxBreaching == 2

\* The value every metric source returns when it cannot measure.
FallbackValue == 0

-----------------------------------------------------------------------------
(* Configuration *)

PlaceholderUrl == "YOUR_DISCORD_WEBHOOK_URL_HERE"
ExampleUrl     == "https://discord.com/api/webhooks/YOUR_WEBHOOK_ID/YOUR_WEBHOOK_TOKEN"
FallbackUrl    == "https://discord.com/api/webhooks/1394315684002922568/fallback"
OperatorUrl    == "https://discord.com/api/webhooks/42/operator"

server_name == "Server"

CHECK_INTERVAL_HOURS == 24
ErrorCooldown == 300

\* config.py as the operator may have left it: absent, without WEBHOOK_URL,
\* or with WEBHOOK_URL set to a webhook, to "", or to a placeholder.
Configs ==
    {[present |-> FALSE, has_url |-> FALSE, url |-> "", status_reports |-> FALSE],
     [present |-> TRUE,  has_url |-> FALSE, url |-> "", status_reports |-> FALSE]}
    \cup {[present |-> TRUE, has_url |-> TRUE, url |-> OperatorUrl, status_reports |-> r] :
             r \in BOOLEAN}
    \cup {[present |-> TRUE, has_url |-> TRUE, url |-> u, status_reports |-> FALSE] :
             u \in {"", PlaceholderUrl, ExampleUrl}}

\* A webhook the Discord API accepts posts for.
Deliverable(url) == url \in {OperatorUrl, FallbackUrl}

-----------------------------------------------------------------------------
(* State file: json.dump / json.load *)

EmptyMap == [k \in {} |-> "normal"]

Dict(map) == [type |-> "dict", map |-> map]

\* A JSON value that is not an object (json.load returns a list for "[]").
JsonList == [type |-> "list", map |-> EmptyMap]

\* The file: absent, or a document that is an object (its key/value pairs in
\* order, complete when the closing brace was written) or an array.
AbsentFile == [kind |-> "absent", pairs |-> <<>>, complete |-> FALSE]

ArrayFile == [kind |-> "array", pairs |-> <<>>, complete |-> TRUE]

TruncatedFile == [kind |-> "object", pairs |-> <<>>, complete |-> FALSE]

RECURSIVE PairsOf(_, _)
PairsOf(map, keys) ==
    IF keys = <<>> THEN <<>>
    ELSE IF Head(keys) \in DOMAIN map
         THEN <<<<Head(keys), map[Head(keys)]>>>> \o PairsOf(map, Tail(keys))
         ELSE PairsOf(map, Tail(keys))

KeyOrder == metrics \o <<"legacy_dir">>

\* A dump that leaves out the keys stored as normal.
json_dump_without_normal(obj) ==
    [kind |-> "object",
     pairs |-> PairsOf([k \in {x \in DOMAIN obj.map : obj.map[x] # "normal"} |-> obj.map[k]],
                       KeyOrder),
     complete |-> TRUE]

json_dump(obj) ==
    [kind |-> "object", pairs |-> PairsOf(obj.map, KeyOrder), complete |-> TRUE]

RECURSIVE ObjectOf(_)
ObjectOf(pairs) ==
    IF pairs = <<>> THEN EmptyMap
    ELSE LET rest == ObjectOf(Tail(pairs))
             k == Head(pairs)[1]
         IN [x \in DOMAIN rest \cup {k} |->
                IF x \in DOMAIN rest THEN rest[x] ELSE Head(pairs)[2]]

\* json.load raises on a document that is not complete.
Parseable(file) == file.kind \in {"object", "array"} /\ file.complete

json_load(file) ==
    IF file.kind = "array" THEN JsonList ELSE Dict(ObjectOf(file.pairs))

load_state(file) ==
    IF file.kind # "absent" /\ Parseable(file) THEN json_load(file)
    ELSE Dict(EmptyMap)

-----------------------------------------------------------------------------
(* Messages: a message is the sequence of its lines *)

Upper(level) ==
    CASE level = "normal"   -> "NORMAL"
      [] level = "warning"  -> "WARNING"
      [] level = "critical" -> "CRITICAL"
      [] OTHER              -> level

emoji(level) ==
    CASE level = "warning"  -> ":warning:"
      [] level = "critical" -> ":rotating_light:"
      [] level = "normal"   -> ":white_check_mark:"
      [] OTHER              -> ":bar_chart:"

Fmt2(v) == ToString(v) \o ".00"
Fmt1(v) == ToString(v) \o ".0"

format_alert_message(name, v, u, level, threshold_warning, threshold_critical) ==
    << emoji(level) \o " **" \o server_name \o " - " \o name \o "** - " \o Upper(level),
       "Current: " \o Fmt2(v) \o " " \o u,
       "Warning: " \o Fmt2(threshold_warning) \o " " \o u,
       "Critical: " \o Fmt2(threshold_critical) \o " " \o u >>

format_status_report(val) ==
    << "**Storage Status for " \o server_name \o "**",
       "**Home Directory (excl .layer):** " \o Fmt2(val["home_dir"]) \o " GB",
       "**~/.layer Directory:** " \o Fmt2(val["layer_dir"]) \o " GB",
       "**Journal Logs:** " \o Fmt2(val["journal_logs"]) \o " GB",
       "**System Storage:** " \o Fmt1(val["system_storage"]) \o "% used",
       "" >>

\* The blocks joined by a single line break.
RECURSIVE JoinNoBlankLine(_)
JoinNoBlankLine(blocks) ==
    IF blocks = <<>> THEN <<>> ELSE Head(blocks) \o JoinNoBlankLine(Tail(blocks))

\* "\n\n".join(alerts): the blocks with one empty line between them.
RECURSIVE Join(_)
Join(blocks) ==
    IF blocks = <<>> THEN <<>>
    ELSE IF Len(blocks) = 1 THEN Head(blocks)
    ELSE Head(blocks) \o <<"">> \o Join(Tail(blocks))

-----------------------------------------------------------------------------
(* Alert evaluation: the loop over the metrics in check_and_alert *)

\* The lookup with an absent key read as critical instead of the default.
GetAbsentAsCritical(map, key, default) == IF key \in DOMAIN map THEN map[key] ELSE "critical"

Get(map, key, default) == IF key \in DOMAIN map THEN map[key] ELSE default

\* should_alert without the comparison with the last level: every cycle of
\* a metric that is or was above a threshold alerts.
should_alert_while_breaching(current_level, last_level) ==
    current_level # "normal" \/ last_level # "normal"

\* should_alert without the recovery branch.
should_alert_no_recovery(current_level, last_level) ==
    current_level # "normal" /\ last_level # current_level

should_alert(current_level, last_level) ==
    \/ current_level # "normal" /\ last_level # current_level
    \/ current_level = "normal" /\ last_level # "normal"

\* The assignment as a setdefault: a key already stored keeps its value.
PutIfAbsent(map, key, v) ==
    [k \in DOMAIN map \cup {key} |-> IF k \in DOMAIN map THEN map[k] ELSE v]

Put(map, key, v) ==
    [k \in DOMAIN map \cup {key} |-> IF k = key THEN v ELSE map[k]]

RECURSIVE AlertLoop(_, _, _, _)
AlertLoop(i, val, states, alerts) ==
    IF i > Len(metrics) THEN [states |-> states, alerts |-> alerts]
    ELSE LET metric_key == metrics[i]
             current_level == determine_alert_level(val[metric_key], thresholds[metric_key])
             last_level == Get(states, metric_key, "normal")
             message == format_alert_message(metric_name[metric_key], val[metric_key],
                                             unit[metric_key], current_level,
                                             thresholds[metric_key].warning,
                                             thresholds[metric_key].critical)
         IN AlertLoop(i + 1, val,
                      Put(states, metric_key, current_level),
                      IF should_alert(current_level, last_level)
                      THEN Append(alerts, message) ELSE alerts)

-----------------------------------------------------------------------------
(* Initial state: the process is about to be started *)

NoValues == [m \in MetricKeys |-> 0]

InitialFiles ==
    { AbsentFile, TruncatedFile, ArrayFile,
      json_dump(Dict([k \in {"layer_dir"} |-> "critical"])),
      json_dump(Dict([k \in {"home_dir"} |-> "unknown"])) }

NoRecord == [m \in MetricKeys |-> "none"]

NoneUnannounced == [level |-> "none", run |-> "this"]

NoTrail == [metric |-> "none", block |-> "none", announced |-> "none", stored |-> FALSE]

NoCall == [value |-> 0, thresholds |-> [warning |-> 0, critical |-> 0], level |-> "none"]

NotRunning ==
    /\ webhook_url = ""
    /\ send_status_reports = FALSE
    /\ last_states = Dict(EmptyMap)
    /\ value = NoValues
    /\ unavailable = {}
    /\ prior = Dict(EmptyMap)
    /\ alerts_to_send = <<>>
    /\ sent = <<>>
    /\ save_failed = FALSE
    /\ sleep_time = 0

Init ==
    /\ pc = "start"
    /\ config \in Configs
    /\ state_file \in InitialFiles
    /\ NotRunning
    /\ recorded = NoRecord
    /\ watched = "none"
    /\ unannounced = NoneUnannounced
    /\ call = NoCall
    /\ trail = NoTrail

-----------------------------------------------------------------------------
(* main(): configuration, the webhook check, construction of the monitor *)

Locals == <<value, unavailable, prior, alerts_to_send, sent, save_failed>>

Main ==
    /\ pc = "start"
    /\ IF config.present /\ ~config.has_url
       THEN \* config.WEBHOOK_URL raises AttributeError, which main() does not catch
            /\ pc' = "died"
            /\ UNCHANGED <<webhook_url, send_status_reports, last_states>>
       ELSE LET WEBHOOK_URL == IF config.present THEN config.url ELSE FallbackUrl
            IN IF WEBHOOK_URL = PlaceholderUrl
               THEN /\ pc' = "refused"
                    /\ UNCHANGED <<webhook_url, send_status_reports, last_states>>
               ELSE /\ webhook_url' = WEBHOOK_URL
                    /\ send_status_reports' = (config.present /\ config.status_reports)
                    /\ last_states' = load_state(state_file)
                    /\ pc' = "layer"
    /\ trail' = IF trail.metric = "none" THEN trail
                ELSE [trail EXCEPT !.stored =
                         LET loaded == load_state(state_file)
                         IN loaded.type = "dict" /\ trail.metric \in DOMAIN loaded.map]
    /\ UNCHANGED <<call, config, state_file, sleep_time, recorded, watched, unannounced>>
    /\ UNCHANGED Locals

-----------------------------------------------------------------------------
(* check_and_alert(): sampling *)

\* The loop of main() without its except clause: the exception ends the process.
CycleErrorExits ==
    /\ pc' = "died"
    /\ sleep_time' = 0

\* The exception reaches the loop of main(): it is printed and the loop
\* sleeps 5 minutes.
CycleError ==
    /\ pc' = "cooldown"
    /\ sleep_time' = ErrorCooldown

Breaching(val) == {m \in MetricKeys : val[m] >= thresholds[m].warning}

Measured(m, next) ==
    /\ \E v \in Readings(m) :
          /\ value' = [value EXCEPT ![m] = v]
          /\ Cardinality(Breaching(value')) <= MaxBreaching
    /\ pc' = next
    /\ UNCHANGED <<unavailable, sleep_time>>

\* The source caught its own failure and returned 0.0.
Unavailable(m, next) ==
    /\ value' = [value EXCEPT ![m] = FallbackValue]
    /\ unavailable' = unavailable \cup {m}
    /\ pc' = next
    /\ UNCHANGED sleep_time

\* The call does not return: os.walk and shutil.disk_usage are made without
\* a timeout and block for as long as the filesystem does not answer.
Stuck ==
    /\ pc' = "hung"
    /\ UNCHANGED <<value, unavailable, sleep_time>>

get_directory_size ==
    /\ pc = "layer"
    /\ \/ Measured("layer_dir", "home")
       \/ Unavailable("layer_dir", "home")
       \/ Stuck
       \/ \* path.exists() raises PermissionError outside the try
          /\ CycleError
          /\ unavailable' = unavailable \cup {"layer_dir"}
          /\ UNCHANGED value
    /\ UNCHANGED <<call, trail, config, webhook_url, send_status_reports, state_file, last_states,
                   prior, alerts_to_send, sent, save_failed, recorded, watched, unannounced>>

get_home_dir_size_excluding_layer ==
    /\ pc = "home"
    /\ \/ Measured("home_dir", "journal")
       \/ Unavailable("home_dir", "journal")
       \/ Stuck
    /\ UNCHANGED <<call, trail, config, webhook_url, send_status_reports, state_file, last_states,
                   prior, alerts_to_send, sent, save_failed, recorded, watched, unannounced>>

get_journal_size ==
    /\ pc = "journal"
    /\ \/ Measured("journal_logs", "system")
       \/ Unavailable("journal_logs", "system")
    /\ UNCHANGED <<call, trail, config, webhook_url, send_status_reports, state_file, last_states,
                   prior, alerts_to_send, sent, save_failed, recorded, watched, unannounced>>

get_system_storage ==
    /\ pc = "system"
    /\ \/ Measured("system_storage", "evaluate")
       \/ Unavailable("system_storage", "evaluate")
       \/ Stuck
    /\ UNCHANGED <<call, trail, config, webhook_url, send_status_reports, state_file, last_states,
                   prior, alerts_to_send, sent, save_failed, recorded, watched, unannounced>>

-----------------------------------------------------------------------------
(* check_and_alert(): the alert loop, the deliveries, the save *)

\* The alert loop with the state written to the file as soon as the loop
\* has updated it, before any delivery.
EvaluateThenSave ==
    /\ pc = "evaluate"
    /\ IF last_states.type # "dict"
       THEN /\ CycleError
            /\ UNCHANGED <<last_states, prior, alerts_to_send, recorded, unannounced,
                           state_file>>
       ELSE LET r == AlertLoop(1, value, last_states.map, <<>>)
            IN /\ prior' = last_states
               /\ last_states' = Dict(r.states)
               /\ alerts_to_send' = r.alerts
               /\ state_file' = json_dump(Dict(r.states))
               /\ pc' = "send"
               /\ UNCHANGED <<sleep_time, recorded, unannounced>>
    /\ UNCHANGED <<call, trail, config, webhook_url, send_status_reports,
                   value, unavailable, sent, save_failed, watched>>

Evaluate ==
    /\ pc = "evaluate"
    /\ IF last_states.type # "dict"
       THEN \* self.last_states.get raises AttributeError
            /\ CycleError
            /\ UNCHANGED <<last_states, prior, alerts_to_send, recorded, unannounced>>
       ELSE LET r == AlertLoop(1, value, last_states.map, <<>>)
            IN /\ prior' = last_states
               /\ last_states' = Dict(r.states)
               /\ alerts_to_send' = r.alerts
               /\ pc' = "send"
               /\ UNCHANGED <<sleep_time, recorded, unannounced>>
    /\ UNCHANGED <<call, trail, config, webhook_url, send_status_reports, state_file,
                   value, unavailable, sent, save_failed, watched>>

\* send_discord_alert with the except clause missing: a failed delivery
\* raises into the loop of main().
send_discord_alert_uncaught(kind, message, next) ==
    \E ok \in (IF Deliverable(webhook_url) THEN BOOLEAN ELSE {FALSE}) :
        /\ sent' = Append(sent, [kind |-> kind, message |-> message, ok |-> ok])
        /\ IF ok THEN pc' = next /\ UNCHANGED sleep_time ELSE CycleError

\* send_discord_alert(message): the call is made, its failure is caught and
\* printed, and check_and_alert goes on with its next statement.
send_discord_alert(kind, message, next) ==
    \E ok \in (IF Deliverable(webhook_url) THEN BOOLEAN ELSE {FALSE}) :
        /\ sent' = Append(sent, [kind |-> kind, message |-> message, ok |-> ok])
        /\ pc' = next
        /\ UNCHANGED sleep_time

\* The trail after the alert step of a cycle, delivered telling whether the
\* alert message of the cycle reached the webhook.
TrailAfterDispatch(delivered) ==
    IF trail.metric = "none" THEN trail
    ELSE LET m == trail.metric
             level == determine_alert_level(value[m], thresholds[m])
             block == format_alert_message(metric_name[m], value[m], unit[m], level,
                          thresholds[m].warning, thresholds[m].critical)
             produced == \E i \in DOMAIN alerts_to_send : alerts_to_send[i] = block
         IN [trail EXCEPT
                !.block = IF produced THEN level ELSE @,
                !.announced = IF produced /\ delivered THEN level
                              ELSE IF @ = level THEN @ ELSE "none"]

SendAlerts ==
    /\ pc = "send"
    /\ IF alerts_to_send # <<>>
       THEN send_discord_alert("alert", Join(alerts_to_send), "status")
       ELSE /\ pc' = "status"
            /\ UNCHANGED <<sent, sleep_time>>
    /\ unavailable' = {}
    /\ unannounced' = NoneUnannounced
    /\ trail' = TrailAfterDispatch(alerts_to_send # <<>> /\ sent'[Len(sent')].ok)
    /\ UNCHANGED <<call, config, webhook_url, send_status_reports, state_file, last_states,
                   value, prior, alerts_to_send, save_failed, recorded, watched>>

\* The status report sent only in the cycles that alert.
SendStatusReportWithAlerts ==
    /\ pc = "status"
    /\ IF send_status_reports /\ alerts_to_send # <<>>
       THEN send_discord_alert("status", format_status_report(value), "save")
       ELSE /\ pc' = "save"
            /\ UNCHANGED <<sent, sleep_time>>
    /\ UNCHANGED <<call, trail, config, webhook_url, send_status_reports, state_file, last_states,
                   value, unavailable, prior, alerts_to_send, save_failed,
                   recorded, watched, unannounced>>

SendStatusReport ==
    /\ pc = "status"
    /\ IF send_status_reports
       THEN send_discord_alert("status", format_status_report(value), "save")
       ELSE /\ pc' = "save"
            /\ UNCHANGED <<sent, sleep_time>>
    /\ UNCHANGED <<call, trail, config, webhook_url, send_status_reports, state_file, last_states,
                   value, unavailable, prior, alerts_to_send, save_failed,
                   recorded, watched, unannounced>>

\* save_state, first half: open(self.state_file, 'w') truncates the file.
SaveOpen ==
    /\ pc = "save"
    /\ state_file' = TruncatedFile
    /\ save_failed' = FALSE
    /\ pc' = "saving"
    /\ UNCHANGED <<call, trail, config, webhook_url, send_status_reports, last_states, sleep_time,
                   value, unavailable, prior, alerts_to_send, sent,
                   recorded, watched, unannounced>>

\* save_state writing the mapping the cycle started from instead of the
\* one the alert loop left.
SaveWriteStale ==
    /\ pc = "saving"
    /\ \/ /\ state_file' = json_dump(prior)
          /\ UNCHANGED save_failed
       \/ /\ save_failed' = TRUE
          /\ UNCHANGED state_file
    /\ pc' = "sleep"
    /\ sleep_time' = CHECK_INTERVAL_HOURS * 3600
    /\ UNCHANGED <<call, trail, config, webhook_url, send_status_reports, last_states,
                   value, unavailable, prior, alerts_to_send, sent, recorded, watched,
                   unannounced>>

\* save_state, second half: json.dump and the close that writes the buffer
\* out, or an exception (printed) that leaves the file as it is; then the
\* loop of main() sleeps for the check interval.
SaveWrite ==
    /\ pc = "saving"
    /\ \/ /\ state_file' = json_dump(last_states)
          /\ UNCHANGED save_failed
       \/ /\ save_failed' = TRUE
          /\ UNCHANGED state_file
    /\ pc' = "sleep"
    /\ sleep_time' = CHECK_INTERVAL_HOURS * 3600
    /\ UNCHANGED <<call, trail, config, webhook_url, send_status_reports, last_states,
                   value, unavailable, prior, alerts_to_send, sent, recorded, watched,
                   unannounced>>

\* The level of the watched metric's block in this cycle's alert message if
\* the delivery of that message failed, "none" otherwise.
FailedLevel ==
    IF watched = "none" THEN "none"
    ELSE LET level == determine_alert_level(value[watched], thresholds[watched])
             block == format_alert_message(metric_name[watched], value[watched],
                          unit[watched], level, thresholds[watched].warning,
                          thresholds[watched].critical)
         IN IF /\ \E i \in DOMAIN alerts_to_send : alerts_to_send[i] = block
               /\ \E i \in DOMAIN sent : sent[i].kind = "alert" /\ ~sent[i].ok
            THEN level ELSE "none"

\* The loop reading the state back from the file before every cycle.
WakeReloading ==
    /\ pc \in {"sleep", "cooldown"}
    /\ pc' = "layer"
    /\ sleep_time' = 0
    /\ last_states' = load_state(state_file)
    /\ value' = NoValues
    /\ unavailable' = {}
    /\ prior' = Dict(EmptyMap)
    /\ alerts_to_send' = <<>>
    /\ sent' = <<>>
    /\ recorded' = IF pc = "sleep" /\ watched # "none"
                   THEN [m \in MetricKeys |->
                           determine_alert_level(value[m], thresholds[m])]
                   ELSE recorded
    /\ unannounced' = [level |-> FailedLevel, run |-> "this"]
    /\ UNCHANGED <<call, trail, config, webhook_url, send_status_reports, state_file,
                   save_failed, watched>>

\* time.sleep returns and the loop calls check_and_alert again.
Wake ==
    /\ pc \in {"sleep", "cooldown"}
    /\ pc' = "layer"
    /\ sleep_time' = 0
    /\ value' = NoValues
    /\ unavailable' = {}
    /\ prior' = Dict(EmptyMap)
    /\ alerts_to_send' = <<>>
    /\ sent' = <<>>
    /\ recorded' = IF pc = "sleep" /\ watched # "none"
                   THEN [m \in MetricKeys |->
                           determine_alert_level(value[m], thresholds[m])]
                   ELSE recorded
    /\ unannounced' = [level |-> FailedLevel, run |-> "this"]
    /\ UNCHANGED <<call, trail, config, webhook_url, send_status_reports, state_file, last_states,
                   save_failed, watched>>

-----------------------------------------------------------------------------
(* The process is stopped from outside (Ctrl+C, kill, power loss) and is   *)
(* started again later with the same config.py.                            *)

Running == pc \notin {"start", "refused", "died"}

\* A kill during json.dump leaves the file empty or with the first pairs of
\* the document, at most this many.
MaxTornPairs == 1

TornFiles ==
    LET full == json_dump(last_states).pairs
    IN {[kind |-> "object", pairs |-> SubSeq(full, 1, n), complete |-> FALSE] :
           n \in 0..(IF Len(full) < MaxTornPairs THEN Len(full) ELSE MaxTornPairs)}

Kill ==
    /\ Running
    /\ pc' = "start"
    /\ IF pc = "saving" THEN state_file' \in TornFiles ELSE UNCHANGED state_file
    /\ webhook_url' = ""
    /\ send_status_reports' = FALSE
    /\ last_states' = Dict(EmptyMap)
    /\ value' = NoValues
    /\ unavailable' = {}
    /\ prior' = Dict(EmptyMap)
    /\ alerts_to_send' = <<>>
    /\ sent' = <<>>
    /\ save_failed' = FALSE
    /\ sleep_time' = 0
    /\ recorded' = NoRecord
    /\ unannounced' =
          IF FailedLevel # "none" THEN [level |-> FailedLevel, run |-> "earlier"]
          ELSE IF unannounced.level # "none" THEN [unannounced EXCEPT !.run = "earlier"]
          ELSE NoneUnannounced
    /\ trail' = IF trail.metric = "none" THEN trail
                ELSE [trail EXCEPT !.block = "none", !.stored = FALSE]
    /\ UNCHANGED <<call, config, watched>>

Next ==
    \/ Main
    \/ get_directory_size
    \/ get_home_dir_size_excluding_layer
    \/ get_journal_size
    \/ get_system_storage
    \/ Evaluate
    \/ SendAlerts
    \/ SendStatusReport
    \/ SaveOpen
    \/ SaveWrite
    \/ Wake
    \/ Kill

Spec == Init /\ [][Next]_vars

\* The process left alone: it is not stopped from outside and every step
\* it can take is taken (each sleep ends, each call that returns does so).
NextRun ==
    \/ Main
    \/ get_directory_size
    \/ get_home_dir_size_excluding_layer
    \/ get_journal_size
    \/ get_system_storage
    \/ Evaluate
    \/ SendAlerts
    \/ SendStatusReport
    \/ SaveOpen
    \/ SaveWrite
    \/ Wake

FairSpec == Init /\ [][NextRun]_vars /\ WF_vars(NextRun)

-----------------------------------------------------------------------------
(* The same process with the announcements of one metric followed from one *)
(* cycle to the next, across restarts.                                     *)

InitHistory ==
    /\ pc = "start"
    /\ config = [present |-> TRUE, has_url |-> TRUE, url |-> OperatorUrl,
                 status_reports |-> FALSE]
    /\ state_file = AbsentFile
    /\ NotRunning
    /\ recorded = NoRecord
    /\ watched \in {metrics[1], metrics[Len(metrics)]}
    /\ unannounced = NoneUnannounced
    /\ call = NoCall
    /\ trail = NoTrail

SpecHistory == InitHistory /\ [][Next]_vars

-----------------------------------------------------------------------------
(* The same process with the blocks of one metric followed over its cycles  *)
(* and runs: the level of the last block produced in the run, and the level *)
(* last delivered to the webhook while the metric has stayed at it.         *)

InitTrail ==
    /\ pc = "start"
    /\ config = [present |-> TRUE, has_url |-> TRUE, url |-> OperatorUrl,
                 status_reports |-> FALSE]
    /\ state_file = AbsentFile
    /\ NotRunning
    /\ recorded = NoRecord
    /\ watched = "none"
    /\ unannounced = NoneUnannounced
    /\ call = NoCall
    /\ trail = [NoTrail EXCEPT !.metric = metrics[1]]

SpecTrail == InitTrail /\ [][Next]_vars

-----------------------------------------------------------------------------
(* The alert loop on its own: the process stands before the loop with any  *)
(* mapping the state file can have held (levels of any of the metrics, a   *)
(* value that is no level, a key of a metric this version does not know)   *)
(* and with any reading of every metric.                                   *)

StoredValues == Levels \cup {"unknown"}

StoredMaps ==
    UNION {[S -> StoredValues] : S \in SUBSET MetricKeys}
    \cup UNION {{[k \in S \cup {"legacy_dir"} |-> IF k \in S THEN f[k] ELSE "warning"] :
                    f \in [S -> StoredValues]} : S \in SUBSET MetricKeys}

InitLoop ==
    /\ pc = "evaluate"
    /\ config = [present |-> TRUE, has_url |-> TRUE, url |-> OperatorUrl,
                 status_reports |-> FALSE]
    /\ webhook_url = OperatorUrl
    /\ send_status_reports = FALSE
    /\ state_file = AbsentFile
    /\ last_states \in {Dict(f) : f \in StoredMaps}
    /\ value \in [MetricKeys -> UNION {Readings(m) : m \in MetricKeys}]
    /\ \A m \in MetricKeys : value[m] \in Readings(m)
    /\ unavailable = {}
    /\ prior = Dict(EmptyMap)
    /\ alerts_to_send = <<>>
    /\ sent = <<>>
    /\ save_failed = FALSE
    /\ sleep_time = 0
    /\ recorded = NoRecord
    /\ watched = "none"
    /\ unannounced = NoneUnannounced
    /\ call = NoCall
    /\ trail = NoTrail

NextLoop == Evaluate

SpecLoop == InitLoop /\ [][NextLoop]_vars

-----------------------------------------------------------------------------
(* The alert loop run twice: after the loop of one cycle the next cycle     *)
(* samples the same values and runs the loop again on the state the first   *)
(* loop left in self.last_states.                                           *)

InitTwice ==
    /\ pc = "evaluate"
    /\ config = [present |-> TRUE, has_url |-> TRUE, url |-> OperatorUrl,
                 status_reports |-> FALSE]
    /\ webhook_url = OperatorUrl
    /\ send_status_reports = FALSE
    /\ state_file = AbsentFile
    /\ last_states \in {Dict(f) : f \in UNION {[S -> StoredValues] : S \in SUBSET MetricKeys}}
    /\ value \in [MetricKeys -> UNION {Readings(m) : m \in MetricKeys}]
    /\ \A m \in MetricKeys : value[m] \in Readings(m)
    /\ unavailable = {}
    /\ prior = Dict(EmptyMap)
    /\ alerts_to_send = <<>>
    /\ sent = <<>>
    /\ save_failed = FALSE
    /\ sleep_time = 0
    /\ recorded = NoRecord
    /\ watched = "none"
    /\ unannounced = NoneUnannounced
    /\ call = NoCall
    /\ trail = NoTrail

\* The next call of check_and_alert with every metric sampled at the value
\* it had: alerts_to_send starts empty again, self.last_states is kept.
Repeat ==
    /\ pc = "send"
    /\ recorded = NoRecord
    /\ pc' = "evaluate"
    /\ alerts_to_send' = <<>>
    /\ recorded' = [m \in MetricKeys |-> determine_alert_level(value[m], thresholds[m])]
    /\ UNCHANGED <<call, trail, config, webhook_url, send_status_reports, state_file, last_states,
                   value, unavailable, prior, sent, save_failed, sleep_time, watched,
                   unannounced>>

NextTwice ==
    \/ Evaluate
    \/ Repeat

SpecTwice == InitTwice /\ [][NextTwice]_vars

-----------------------------------------------------------------------------
(* determine_alert_level on its own: called with any value and any pair of  *)
(* thresholds with warning <= critical.                                     *)

\* Values and thresholds range over 0..MaxValue.
MaxValue == 6

InitClassify ==
    /\ pc = "classify"
    /\ config = [present |-> TRUE, has_url |-> TRUE, url |-> OperatorUrl,
                 status_reports |-> FALSE]
    /\ state_file = AbsentFile
    /\ NotRunning
    /\ recorded = NoRecord
    /\ watched = "none"
    /\ unannounced = NoneUnannounced
    /\ \E v \in 0..MaxValue, w \in 0..MaxValue, c \in 0..MaxValue :
          /\ w <= c
          /\ call = [value |-> v, thresholds |-> [warning |-> w, critical |-> c],
                     level |-> "none"]
    /\ trail = NoTrail

Classify ==
    /\ pc = "classify"
    /\ call' = [call EXCEPT !.level = determine_alert_level(call.value, call.thresholds)]
    /\ pc' = "classified"
    /\ UNCHANGED <<trail, config, webhook_url, send_status_reports, state_file, last_states,
                   sleep_time, recorded, watched, unannounced>>
    /\ UNCHANGED Locals

NextClassify == Classify

SpecClassify == InitClassify /\ [][NextClassify]_vars

-----------------------------------------------------------------------------
(* The state store on its own: save_state() of any mapping of metric keys   *)
(* to levels, over a file that is absent or holds an older mapping,         *)
(* followed by the load_state() of the next construction of the monitor.    *)

LevelMaps == UNION {[S -> Levels] : S \in SUBSET MetricKeys}

InitStore ==
    /\ pc = "save"
    /\ config = [present |-> TRUE, has_url |-> TRUE, url |-> OperatorUrl,
                 status_reports |-> FALSE]
    /\ webhook_url = OperatorUrl
    /\ send_status_reports = FALSE
    /\ state_file \in {AbsentFile, json_dump(Dict([m \in MetricKeys |-> "warning"]))}
    /\ last_states \in {Dict(f) : f \in LevelMaps}
    /\ prior = last_states
    /\ value = NoValues
    /\ unavailable = {}
    /\ alerts_to_send = <<>>
    /\ sent = <<>>
    /\ save_failed = FALSE
    /\ sleep_time = 0
    /\ recorded = NoRecord
    /\ watched = "none"
    /\ unannounced = NoneUnannounced
    /\ call = NoCall
    /\ trail = NoTrail

\* self.last_states = self.load_state() of a monitor constructed on the file
\* as save_state left it.
Reload ==
    /\ pc = "sleep"
    /\ last_states' = load_state(state_file)
    /\ pc' = "loaded"
    /\ UNCHANGED <<call, trail, config, webhook_url, send_status_reports, state_file, sleep_time,
                   recorded, watched, unannounced>>
    /\ UNCHANGED Locals

NextStore ==
    \/ SaveOpen
    \/ SaveWrite
    \/ Reload

SpecStore == InitStore /\ [][NextStore]_vars

-----------------------------------------------------------------------------
(* Properties *)

\* The alert loop of the current cycle has run.
AfterLoop == pc \in {"send", "status", "save", "saving", "sleep"}

\* The alert delivery step of the current cycle is over.
AfterDispatch == pc \in {"status", "save", "saving", "sleep"}

current_level(m) == determine_alert_level(value[m], thresholds[m])

prior_level(m) == Get(prior.map, m, "normal")

Block(m) ==
    format_alert_message(metric_name[m], value[m], unit[m], current_level(m),
                         thresholds[m].warning, thresholds[m].critical)

BlocksFor(m) == {i \in DOMAIN alerts_to_send : alerts_to_send[i] = Block(m)}

NeedsNotification(m) ==
    /\ current_level(m) # prior_level(m)
    /\ current_level(m) # "normal" \/ prior_level(m) # "normal"

\* C1: after the alert loop, a metric has exactly one alert block (carrying
\* its current level) if its level differs from the stored one and one of the
\* two is not normal, and no block otherwise; there are no other blocks.
C1_AlertIffLevelChanged ==
    AfterLoop =>
        /\ \A m \in MetricKeys :
              Cardinality(BlocksFor(m)) = IF NeedsNotification(m) THEN 1 ELSE 0
        /\ Len(alerts_to_send) = Cardinality({m \in MetricKeys : NeedsNotification(m)})

\* A cycle with a recovery (critical to normal), a move from warning to
\* critical, an entry from an absent key and an unchanged warning.
C1_Witness ==
    /\ pc = "send"
    /\ "layer_dir" \in DOMAIN prior.map /\ prior.map["layer_dir"] = "critical"
    /\ current_level("layer_dir") = "normal" /\ BlocksFor("layer_dir") # {}
    /\ "home_dir" \in DOMAIN prior.map /\ prior.map["home_dir"] = "warning"
    /\ current_level("home_dir") = "critical" /\ BlocksFor("home_dir") # {}
    /\ "journal_logs" \notin DOMAIN prior.map
    /\ current_level("journal_logs") = "warning" /\ BlocksFor("journal_logs") # {}
    /\ "system_storage" \in DOMAIN prior.map /\ prior.map["system_storage"] = "warning"
    /\ current_level("system_storage") = "warning" /\ BlocksFor("system_storage") = {}

\* C3: after the alert loop, self.last_states holds the level classified in
\* this cycle for every metric, alerting or not, and every other key it held
\* before the loop with the value it had.
C3_StateHoldsCurrentLevels ==
    AfterLoop =>
        /\ last_states.type = "dict"
        /\ DOMAIN last_states.map = DOMAIN prior.map \cup MetricKeys
        /\ \A m \in MetricKeys : last_states.map[m] = current_level(m)
        /\ \A k \in DOMAIN prior.map \ MetricKeys : last_states.map[k] = prior.map[k]

\* A loop that alerted for one metric, silently changed the stored value of
\* another and silently added a third, next to a key that is no metric.
C3_Witness ==
    /\ pc = "send"
    /\ Len(alerts_to_send) = 1 /\ BlocksFor("layer_dir") # {}
    /\ "home_dir" \in DOMAIN prior.map /\ prior.map["home_dir"] = "warning"
    /\ last_states.map["home_dir"] = "warning"
    /\ "journal_logs" \notin DOMAIN prior.map /\ last_states.map["journal_logs"] = "normal"
    /\ "legacy_dir" \in DOMAIN prior.map /\ last_states.map["legacy_dir"] = "warning"

\* The blocks of a message: its lines split at the empty lines.
RECURSIVE SplitBlocks(_, _)
SplitBlocks(lines, block) ==
    IF lines = <<>> THEN <<block>>
    ELSE IF Head(lines) = "" THEN <<block>> \o SplitBlocks(Tail(lines), <<>>)
    ELSE SplitBlocks(Tail(lines), Append(block, Head(lines)))

\* The blocks of the metrics that need a notification, in metric order.
RECURSIVE ExpectedBlocks(_)
ExpectedBlocks(i) ==
    IF i > Len(metrics) THEN <<>>
    ELSE (IF NeedsNotification(metrics[i]) THEN <<Block(metrics[i])>> ELSE <<>>)
         \o ExpectedBlocks(i + 1)

AlertCalls == {i \in DOMAIN sent : sent[i].kind = "alert"}

\* C4: once the alert delivery step is over, the cycle has made one alert
\* call whose message is the blocks of all metrics needing a notification,
\* in metric order and separated by empty lines, or no alert call when no
\* metric needs one; before that step it has made no call.
C4_OneMessagePerCycle ==
    /\ pc \in {"layer", "home", "journal", "system", "evaluate", "send"} => sent = <<>>
    /\ AfterDispatch =>
          IF ExpectedBlocks(1) = <<>>
          THEN AlertCalls = {}
          ELSE /\ Cardinality(AlertCalls) = 1
               /\ \A i \in AlertCalls :
                     SplitBlocks(sent[i].message, <<>>) = ExpectedBlocks(1)

\* Two metrics breach in the same cycle and one call has been made.
C4_Witness ==
    /\ pc = "status"
    /\ Len(alerts_to_send) = 2
    /\ Len(sent) = 1
    /\ Len(SplitBlocks(sent[1].message, <<>>)) = 2

\* The blocks of metric m, whatever level they carry.
AnyBlocksFor(m) ==
    {i \in DOMAIN alerts_to_send :
        \E l \in Levels :
            alerts_to_send[i] = format_alert_message(metric_name[m], value[m], unit[m], l,
                                    thresholds[m].warning, thresholds[m].critical)}

\* C2: a metric whose value could not be obtained is skipped: after the
\* alert loop its stored level is the one it had before the loop and the
\* loop produced no block for it.
C2_UnavailableMetricSkipped ==
    pc = "send" =>
        \A m \in unavailable :
            /\ Get(last_states.map, m, "normal") = prior_level(m)
            /\ AnyBlocksFor(m) = {}

FailedCalls == {i \in DOMAIN sent : ~sent[i].ok}

\* C6: a failed delivery does not take the cycle off its course (the process
\* is at the statements that follow the call, never in the error handler of
\* the loop), and when the cycle has ended with its save done the state file
\* holds the level classified in this cycle for every metric.
C6_DeliveryFailureAbsorbed ==
    FailedCalls # {} =>
        /\ pc \in {"status", "save", "saving", "sleep"}
        /\ (pc = "sleep" /\ ~save_failed) =>
              /\ Parseable(state_file)
              /\ load_state(state_file).type = "dict"
              /\ \A m \in MetricKeys :
                    /\ m \in DOMAIN load_state(state_file).map
                    /\ load_state(state_file).map[m] = current_level(m)

\* A cycle whose alert delivery failed has ended and its levels, one of them
\* critical, are in the state file.
C6_Witness ==
    /\ pc = "sleep"
    /\ \E i \in FailedCalls : sent[i].kind = "alert"
    /\ ~save_failed
    /\ \E m \in MetricKeys :
          current_level(m) = "critical" /\ load_state(state_file).map[m] = "critical"

\* C7: when the process is killed during save_state, the state file loads
\* as the complete mapping held before this save or as the complete mapping
\* being saved.
C7_SaveIsAtomic ==
    [][(pc = "saving" /\ pc' = "start")
          => load_state(state_file') \in {prior, last_states}]_vars

WebhookConfigured ==
    /\ config.present
    /\ config.has_url
    /\ config.url \notin {"", PlaceholderUrl, ExampleUrl}

\* C8: without a configured webhook the process does not get past its
\* start: it never samples, delivers or writes state.
C8_RefusesWithoutWebhook ==
    ~WebhookConfigured => pc \in {"start", "refused", "died"}

Corrupt(file) ==
    \/ file.kind = "absent"
    \/ ~file.complete
    \/ file.kind = "array"
    \/ \E i \in DOMAIN file.pairs : file.pairs[i][2] \notin Levels

\* C10: started on a missing or corrupt state file, the monitor begins with
\* an empty mapping.
C10_CorruptLoadsEmpty ==
    [][(pc = "start" /\ pc' = "layer" /\ Corrupt(state_file))
          => last_states' = Dict(EmptyMap)]_vars

\* C11: save_state of a mapping of metric keys to levels, when it did not
\* fail, followed by load_state yields a mapping equal to the one saved.
C11_SaveLoadRoundTrip ==
    (pc = "loaded" /\ ~save_failed) => last_states = prior

\* A mapping with a critical, a warning and a normal metric and one metric
\* absent has been saved over an older file and loaded back.
C11_Witness ==
    /\ pc = "loaded"
    /\ ~save_failed
    /\ DOMAIN prior.map = {"layer_dir", "home_dir", "journal_logs"}
    /\ prior.map["layer_dir"] = "critical"
    /\ prior.map["home_dir"] = "warning"
    /\ prior.map["journal_logs"] = "normal"
    /\ last_states = prior

\* C12: when the alert loop has run a second time with the levels of the
\* first run, whatever state the first run started from, the second run
\* produced no block and left self.last_states as the first run left it.
C12_EvaluateIdempotent ==
    (pc = "send" /\ recorded # NoRecord) =>
        /\ alerts_to_send = <<>>
        /\ last_states = prior

\* The second run with one metric critical, one at warning and one normal,
\* after a first run that started from a state holding other values.
C12_Witness ==
    /\ pc = "send"
    /\ recorded # NoRecord
    /\ current_level("layer_dir") = "critical"
    /\ current_level("home_dir") = "warning"
    /\ current_level("journal_logs") = "normal"
    /\ \A m \in MetricKeys : prior.map[m] = recorded[m]
    /\ alerts_to_send = <<>>

\* C13: for every value v and thresholds w <= c, determine_alert_level
\* returns critical iff v >= c, warning iff w <= v < c and normal iff v < w.
C13_ClassifierBoundaries ==
    pc = "classified" =>
        LET v == call.value
            w == call.thresholds.warning
            c == call.thresholds.critical
        IN /\ call.level \in Levels
           /\ call.level = "critical" <=> v >= c
           /\ call.level = "warning" <=> (w <= v /\ v < c)
           /\ call.level = "normal" <=> v < w

\* A value equal to the critical threshold, above the warning threshold,
\* has been classified critical.
C13_Witness ==
    /\ pc = "classified"
    /\ call.value = call.thresholds.critical
    /\ call.thresholds.warning < call.thresholds.critical
    /\ call.level = "critical"

\* C14: whenever the source of a metric fails, the cycle goes on: the
\* process moves to the sampling of the next metric or to the alert loop.
C14_SourceFailureDoesNotAbort ==
    [][\A m \in MetricKeys :
          (m \notin unavailable /\ m \in unavailable')
              => pc' \in {"home", "journal", "system", "evaluate"}]_vars

StatusCalls == {i \in DOMAIN sent : sent[i].kind = "status"}

\* The lines of a status summary that carry the values of the four metrics.
StatusLines ==
    { "**Home Directory (excl .layer):** " \o Fmt2(value["home_dir"]) \o " GB",
      "**~/.layer Directory:** " \o Fmt2(value["layer_dir"]) \o " GB",
      "**Journal Logs:** " \o Fmt2(value["journal_logs"]) \o " GB",
      "**System Storage:** " \o Fmt1(value["system_storage"]) \o "% used" }

\* C15: send_status_reports is the option of config.py (off without it);
\* with it on, a cycle that has passed its status step has made exactly one
\* status call, after the alert call if there is one, whose message lists
\* the value of every metric; with it off, and before the status step, no
\* status call has been made.
C15_OneStatusReportPerCycle ==
    /\ Running => send_status_reports = (config.present /\ config.status_reports)
    /\ pc \in {"save", "saving", "sleep"} =>
          IF send_status_reports
          THEN /\ Cardinality(StatusCalls) = 1
               /\ StatusCalls = {Len(sent)}
               /\ \A i \in StatusCalls :
                     StatusLines \subseteq {sent[i].message[j] : j \in DOMAIN sent[i].message}
          ELSE StatusCalls = {}
    /\ pc \notin {"save", "saving", "sleep"} => StatusCalls = {}

\* A cycle whose alert delivery failed has made its status call.
C15_Witness ==
    /\ pc = "save"
    /\ send_status_reports
    /\ Len(sent) = 2
    /\ sent[1].kind = "alert" /\ ~sent[1].ok
    /\ sent[2].kind = "status"

\* C16: whenever the loop is asleep and the last save_state did not fail,
\* the state file holds, for every metric, the level classified in the most
\* recently completed cycle: the cycle that just ended when the loop sleeps
\* for the interval, the last cycle before the failed one when it sleeps in
\* the cooldown.
C16_PersistedStateIsLastCycle ==
    LET stored == load_state(state_file)
    IN /\ (pc = "sleep" /\ ~save_failed) =>
             /\ Parseable(state_file)
             /\ stored.type = "dict"
             /\ \A m \in MetricKeys :
                   m \in DOMAIN stored.map /\ stored.map[m] = current_level(m)
       /\ (pc = "cooldown" /\ recorded # NoRecord /\ ~save_failed) =>
             /\ Parseable(state_file)
             /\ stored.type = "dict"
             /\ \A m \in MetricKeys :
                   m \in DOMAIN stored.map /\ stored.map[m] = recorded[m]

\* A cycle completed and saved a critical level; the next cycle failed and
\* the loop is in its cooldown with that level still in the file.
C16_Witness ==
    /\ pc = "cooldown"
    /\ recorded # NoRecord
    /\ ~save_failed
    /\ recorded[watched] = "critical"
    /\ load_state(state_file).map[watched] = "critical"

\* C17: no call inside a cycle can stall the loop: every cycle that has
\* started reaches its end (the sleep after save_state) or a cycle-level
\* failure (the cooldown).
C17_NoStuckCollaborator ==
    (pc = "layer") ~> (pc \in {"sleep", "cooldown"})

\* The blocks of the alert messages this cycle has handed to send_discord_alert.
AttemptedBlocks ==
    UNION {{SplitBlocks(sent[i].message, <<>>)[j] :
               j \in DOMAIN SplitBlocks(sent[i].message, <<>>)} : i \in AlertCalls}

\* C19: the state file changes only inside save_state; save_state is
\* entered only after the alert message (if the cycle has one) and the
\* status report (if enabled) have been handed to send_discord_alert; and
\* when a completed write puts the levels of the cycle into the file, the
\* block of every metric whose change needs a notification is in an alert
\* message whose delivery has been attempted.
C19_StateWrittenAfterDeliveries ==
    /\ [][state_file' # state_file => pc \in {"save", "saving"}]_vars
    /\ [](pc \in {"save", "saving"} =>
            /\ alerts_to_send # <<>> => AlertCalls # {}
            /\ send_status_reports => StatusCalls # {})
    /\ [][(pc = "saving" /\ Parseable(state_file')) =>
            \A m \in MetricKeys : NeedsNotification(m) => Block(m) \in AttemptedBlocks]_vars

\* The file holds a critical level the cycle entered, written after the
\* delivery of its alert was attempted and failed.
C19_Witness ==
    /\ pc = "sleep"
    /\ Parseable(state_file)
    /\ \E i \in AlertCalls : ~sent[i].ok
    /\ \E m \in MetricKeys :
          /\ NeedsNotification(m)
          /\ current_level(m) = "critical"
          /\ load_state(state_file).map[m] = "critical"
          /\ Block(m) \in AttemptedBlocks

\* The alert loop of the first cycle of a run has run on an empty mapping:
\* the state file was missing or could not be parsed when the run started.
FirstCycleAfterReset == pc = "send" /\ prior.map = EmptyMap

\* C18 as stated: in the first cycle after a start on a missing or corrupt
\* state file, a metric that is still at the critical level that was
\* delivered to the webhook before gets no block.
C18_ResetMasksCritical ==
    (FirstCycleAfterReset /\ trail.metric # "none" /\ trail.announced = "critical"
        /\ current_level(trail.metric) = "critical")
        => AnyBlocksFor(trail.metric) = {}

\* C18 amended: in the first cycle after a start on a missing or corrupt
\* state file every metric is compared with normal: a metric at warning or
\* critical gets a block, also when that level was already delivered before
\* the restart, and a metric at normal gets none.
C18_ResetAlertsAgain ==
    FirstCycleAfterReset =>
        /\ \A m \in MetricKeys :
              /\ current_level(m) # "normal" => BlocksFor(m) # {}
              /\ current_level(m) = "normal" => AnyBlocksFor(m) = {}
        /\ (trail.metric # "none" /\ trail.announced = "critical"
               /\ current_level(trail.metric) = "critical")
              => BlocksFor(trail.metric) # {}

\* The critical level of the metric was delivered in an earlier run, the
\* state file was lost, and the first cycle of this run has a critical
\* block for the metric again.
C18_Witness ==
    /\ FirstCycleAfterReset
    /\ trail.metric # "none"
    /\ trail.announced = "critical"
    /\ current_level(trail.metric) = "critical"
    /\ BlocksFor(trail.metric) # {}

\* C20: within a run, a block produced for a metric carries the metric's
\* current level, which differs from the level of the block produced last
\* for it in the run, and the first block of a metric for which the run
\* loaded no value is not a normal (recovery) block.
C20_ConsecutiveBlocksDiffer ==
    (pc = "send" /\ trail.metric # "none" /\ AnyBlocksFor(trail.metric) # {}) =>
        /\ AnyBlocksFor(trail.metric) = BlocksFor(trail.metric)
        /\ current_level(trail.metric) # trail.block
        /\ (trail.block = "none" /\ ~trail.stored) => current_level(trail.metric) # "normal"

\* After a critical block earlier in the run the metric gets a recovery
\* block, in a run that started without a stored value for it.
C20_Witness ==
    /\ pc = "send"
    /\ trail.metric # "none"
    /\ ~trail.stored
    /\ trail.block = "critical"
    /\ current_level(trail.metric) = "normal"
    /\ BlocksFor(trail.metric) # {}

====
